---------------------------- MODULE Spec2Model ----------------------------
(***************************************************************************)
(* A model of server.py: the MCP tools code_directory,                     *)
(* update_library_version and check_compatibility.  One behaviour is one   *)
(* tool call: the call action draws the arguments and the directory the    *)
(* code_dir/path argument names, the following actions are the statements  *)
(* of the tool, and pc = "done" is the return to the caller (or the        *)
(* exception that reaches the caller, raised = TRUE).                      *)
(***************************************************************************)
EXTENDS Integers, Sequences, FiniteSets

VARIABLES
    tool,           \* the tool that was called, "none" before the call
    pc,             \* the statement the call is at
    result,         \* the dict returned to the caller
    raised,         \* TRUE when an exception left the tool uncaught
    library_name,   \* argument of update_library_version / check_compatibility
    new_version,    \* argument of update_library_version
    pom,            \* code_dir/pom.xml on disk (update_library_version)
    pom0,           \* pom.xml as it was when the tool was called
    tree,           \* the parsed ElementTree: the dependency elements in document order
    old_version,    \* the local old_version
    dir,            \* what the path of code_directory is on disk
    root_pom,       \* check_compatibility: code_dir/pom.xml on disk
    visited,        \* files the os.walk loop has gone through
    file,           \* the file the loop body holds open (file, content)
    code_snippets,  \* the list code_snippets
    fallback,       \* what the fallback branch found at code_dir/pom.xml
    snippets_text,  \* the (file, snippet) pairs rendered into the prompt
    log_file,       \* what this call appended to log.text
    posts,          \* HTTP POSTs issued by this call
    response        \* what requests.post gave back

vars == <<tool, pc, result, raised, library_name, new_version, pom, pom0, tree,
          old_version, dir, root_pom, visited, file, code_snippets, fallback,
          snippets_text, log_file, posts, response>>

updVars == <<library_name, new_version, pom, pom0, tree, old_version>>
dirVars == <<dir>>
chkVars == <<root_pom, visited, file, code_snippets, fallback, snippets_text, log_file,
             posts, response>>

-----------------------------------------------------------------------------
(* Bounds of the model *)

\* dependency elements in a pom.xml
MaxDeps == 3

\* files one os.walk goes through
MaxFiles == 6

-----------------------------------------------------------------------------
(* Values shared by the tools *)

None == "None"

NoResult == [status |-> "none", kind |-> "none", old |-> None]

ErrorResult(kind) == [status |-> "error", kind |-> kind, old |-> None]

SuccessResult(kind, old) == [status |-> "success", kind |-> kind, old |-> old]

Min(a, b) == IF a < b THEN a ELSE b

-----------------------------------------------------------------------------
(* update_library_version: the manifest                                    *)

ArtifactIds == {"spring-core", "Spring-Core"}

Versions == {"5.3.0", "5.3.20"}

\* a <dependency>: artifactId / version are None when the child is missing
Dependencies == [artifactId : ArtifactIds \cup {None}, version : Versions \cup {None}]

RECURSIVE SeqsUpTo(_, _)
SeqsUpTo(S, n) ==
    IF n = 0 THEN {<<>>}
    ELSE LET shorter == SeqsUpTo(S, n - 1)
         IN  shorter \cup {Append(s, x) : s \in {t \in shorter : Len(t) = n - 1}, x \in S}

\* pom.xml on disk: absent, not well-formed, cut short by a failed write, or a
\* document: its dependency elements and whether it holds XML comments
AbsentPom == [kind |-> "absent", comments |-> FALSE, deps |-> <<>>]
MalformedPom == [kind |-> "malformed", comments |-> FALSE, deps |-> <<>>]
PartialPom == [kind |-> "partial", comments |-> FALSE, deps |-> <<>>]
XmlPom(comments, deps) == [kind |-> "xml", comments |-> comments, deps |-> deps]

Poms ==
    {AbsentPom, MalformedPom}
        \cup {XmlPom(c, d) : c \in BOOLEAN, d \in SeqsUpTo(Dependencies, MaxDeps)}

\* ET.parse(...).getroot() then root.findall(".//ns:dependency"): the default
\* parser drops comments, the dependency elements come in document order
ParseDeps(p) == p.deps

\* tree.write(pom_path, encoding='utf-8', xml_declaration=True): the document
\* of the tree, which holds no comments
WriteTree(t) == XmlPom(FALSE, t)

\* str.lower() on the strings of the model
Lower(s) ==
    CASE s = "Spring-Core" -> "spring-core"
      [] s = "JUnit" -> "junit"
      [] s = "@Service" -> "@service"
      [] OTHER -> s

\* a comparison that ignores case
TextEqualsIgnoreCase(text, name) == text # None /\ Lower(text) = Lower(name)

\* artifact_id is not None and artifact_id.text == library_name
TextEquals(text, name) == text # None /\ text = name

\* the for loop without its break: every matching dependency that has a
\* version child is rewritten and old_version is the last one's
UpdateLoopNoBreak(deps, name, ver, i) ==
    LET hits == {j \in i..Len(deps) :
                    TextEquals(deps[j].artifactId, name) /\ deps[j].version # None}
        last == CHOOSE j \in hits : \A k \in hits : k <= j
    IN  IF hits = {} THEN [found |-> FALSE, old |-> None, deps |-> deps]
        ELSE [found |-> TRUE, old |-> deps[last].version,
              deps |-> [j \in 1..Len(deps) |->
                           IF j \in hits THEN [deps[j] EXCEPT !.version = ver]
                           ELSE deps[j]]]

\* the for loop from its i-th dependency on: found, old_version and the
\* dependency elements when it ends (at the break, or at the end of the list)
RECURSIVE UpdateLoop(_, _, _, _)
UpdateLoop(deps, name, ver, i) ==
    IF i > Len(deps) THEN [found |-> FALSE, old |-> None, deps |-> deps]
    ELSE IF TextEquals(deps[i].artifactId, name) /\ deps[i].version # None
         THEN [found |-> TRUE, old |-> deps[i].version,
               deps |-> [deps EXCEPT ![i].version = ver]]
         ELSE UpdateLoop(deps, name, ver, i + 1)

\* the call: the arguments, and the directory code_dir names
CallUpdate ==
    /\ pc = "idle"
    /\ \E p \in Poms, name \in ArtifactIds, ver \in Versions :
          /\ pom' = p
          /\ pom0' = p
          /\ library_name' = name
          /\ new_version' = ver
    /\ tool' = "update_library_version"
    /\ pc' = "u_exists"
    /\ UNCHANGED <<result, raised, tree, old_version, dirVars, chkVars>>

\* if not os.path.exists(pom_path): return error
PomExists ==
    /\ pc = "u_exists"
    /\ IF pom.kind = "absent"
       THEN /\ result' = ErrorResult("pom.xml not found in the directory")
            /\ pc' = "done"
       ELSE /\ pc' = "u_parse"
            /\ UNCHANGED result
    /\ UNCHANGED <<tool, raised, updVars, dirVars, chkVars>>

\* tree = ET.parse(pom_path); a document that is not well-formed raises
\* ParseError, caught by the except clause
ParsePom ==
    /\ pc = "u_parse"
    /\ IF pom.kind = "xml"
       THEN /\ tree' = ParseDeps(pom)
            /\ pc' = "u_find"
            /\ UNCHANGED result
       ELSE /\ result' = ErrorResult("str(e)")
            /\ pc' = "done"
            /\ UNCHANGED tree
    /\ UNCHANGED <<tool, raised, library_name, new_version, pom, pom0,
                   old_version, dirVars, chkVars>>

\* the for loop and if not found: return error
FindAndSet ==
    /\ pc = "u_find"
    /\ LET r == UpdateLoop(tree, library_name, new_version, 1)
       IN  IF r.found
           THEN /\ tree' = r.deps
                /\ old_version' = r.old
                /\ pc' = "u_write"
                /\ UNCHANGED result
           ELSE /\ result' = ErrorResult("Library not found in pom.xml")
                /\ pc' = "done"
                /\ UNCHANGED <<tree, old_version>>
    /\ UNCHANGED <<tool, raised, library_name, new_version, pom, pom0,
                   dirVars, chkVars>>

\* tree.write opens pom_path for writing, which truncates it; the open may
\* fail (the file is left as it was) and the exception is caught
OpenForWrite ==
    /\ pc = "u_write"
    /\ \/ /\ pom' = PartialPom
          /\ pc' = "u_serialize"
          /\ UNCHANGED result
       \/ /\ result' = ErrorResult("str(e)")
          /\ pc' = "done"
          /\ UNCHANGED pom
    /\ UNCHANGED <<tool, raised, library_name, new_version, pom0, tree,
                   old_version, dirVars, chkVars>>

\* tree.write serializes the tree into the opened file; a write that fails
\* (disk full, I/O error) leaves what was written so far, and the exception
\* is caught; otherwise return success
SerializeTree ==
    /\ pc = "u_serialize"
    /\ \/ /\ pom' = WriteTree(tree)
          /\ result' = SuccessResult("Updated", old_version)
       \/ /\ result' = ErrorResult("str(e)")
          /\ UNCHANGED pom
    /\ pc' = "done"
    /\ UNCHANGED <<tool, raised, library_name, new_version, pom0, tree,
                   old_version, dirVars, chkVars>>

-----------------------------------------------------------------------------
(* code_directory                                                          *)

\* what the path names: no directory, a directory that can be listed, a
\* directory whose listing fails (no read permission, removed meanwhile)
DirStates == {"not a directory", "listable", "unlistable"}

CallCodeDirectory ==
    /\ pc = "idle"
    /\ \E d \in DirStates : dir' = d
    /\ tool' = "code_directory"
    /\ pc' = "d_isdir"
    /\ UNCHANGED <<result, raised, updVars, chkVars>>

\* if not os.path.isdir(path): return error
IsDir ==
    /\ pc = "d_isdir"
    /\ IF dir = "not a directory"
       THEN /\ result' = ErrorResult("Directory does not exist")
            /\ pc' = "done"
       ELSE /\ pc' = "d_listdir"
            /\ UNCHANGED result
    /\ UNCHANGED <<tool, raised, updVars, dirVars, chkVars>>

\* return {..., "files": os.listdir(path)}: no try block around it
ListDir ==
    /\ pc = "d_listdir"
    /\ IF dir = "listable"
       THEN /\ result' = SuccessResult("files", None)
            /\ UNCHANGED raised
       ELSE /\ raised' = TRUE
            /\ UNCHANGED result
    /\ pc' = "done"
    /\ UNCHANGED <<tool, updVars, dirVars, chkVars>>

-----------------------------------------------------------------------------
(* check_compatibility: files and their text                               *)

\* if len(content) > 2000
MaxSnippetChars == 2000

\* len("... (truncated)")
SuffixLen == 15

\* code_snippets[:5]
MaxSnippets == 5

LibraryNames == {"spring-core", "junit"}

\* a file's text is the set of the words in it, and its length in characters
Words == {"spring-core", "Spring-Core", "org.springframework", "@Service",
          "dependency", "junit", "JUnit", "class"}

\* the pairs <<a, b>> of different strings of the model with a in b
ProperSubstrings ==
    {<<"spring", "spring-core">>, <<"spring", "org.springframework">>,
     <<"springframework", "org.springframework">>}

\* needle in word
IsSubstring(needle, word) == needle = word \/ <<needle, word>> \in ProperSubstrings

\* needle in content
Contains(words, needle) == \E w \in words : IsSubstring(needle, w)

\* content.lower()
LowerAll(words) == {Lower(w) : w \in words}

SpringImports ==
    <<"org.springframework", "springframework", "@Controller", "@RestController",
      "@Service", "@Repository", "@Component", "@RequestMapping">>

\* imports_to_check, as set by if "spring" in library_name.lower()
ImportsToCheck(name) ==
    IF IsSubstring("spring", Lower(name)) THEN SpringImports ELSE <<>>

File(path, ext, readable, utf8, words, len) ==
    [path |-> path, ext |-> ext, readable |-> readable, utf8 |-> utf8,
     words |-> words, len |-> len]

NoFile == File("", "", FALSE, FALSE, {}, 0)

\* file.endswith(('.java', '.xml', '.properties', '.yml', '.yaml'))
ScannedExtensions == {"java", "xml", "properties", "yml", "yaml"}

\* the files in the directories below code_dir that a walk may meet
SampleFiles ==
    {File("src/application.properties", "properties", TRUE, TRUE, {"spring-core"}, 120),
     File("src/App.java", "java", TRUE, TRUE, {"org.springframework", "class"}, 2000),
     File("src/Service.java", "java", TRUE, TRUE, {"@Service", "class"}, 2001),
     File("module/pom.xml", "xml", TRUE, TRUE, {"dependency", "Spring-Core"}, 300),
     File("test/pom.xml", "xml", TRUE, TRUE, {"dependency", "JUnit"}, 150),
     File("test/AppTest.java", "java", TRUE, TRUE, {"junit", "class"}, 2500),
     File("docs/notes.txt", "txt", TRUE, TRUE, {"spring-core", "junit"}, 10),
     File("src/Locked.java", "java", FALSE, TRUE, {"spring-core", "junit"}, 40),
     File("src/config.yml", "yml", TRUE, TRUE, {"class"}, 50)}

\* what code_dir/pom.xml may be
RootPoms ==
    {File("pom.xml", "xml", TRUE, TRUE, {"dependency", "Spring-Core"}, 2300),
     File("pom.xml", "xml", TRUE, TRUE, {"dependency", "JUnit"}, 150),
     File("pom.xml", "xml", TRUE, TRUE, {"class"}, 2300),
     File("pom.xml", "xml", TRUE, FALSE, {"class"}, 400),
     File("pom.xml", "xml", FALSE, TRUE, {"dependency", "spring-core"}, 200)}

\* the text f.read() returns
Content(f) == [words |-> f.words, len |-> f.len, truncated |-> FALSE]

\* is_relevant after the if / elif / elif chain
IsRelevant(f, name) ==
    IF Contains(f.words, name) THEN TRUE
    ELSE IF ImportsToCheck(name) # <<>>
         THEN \E i \in 1..Len(ImportsToCheck(name)) :
                 Contains(f.words, ImportsToCheck(name)[i])
         ELSE IF /\ f.ext = "xml"
                 /\ Contains(f.words, "dependency")
                 /\ \/ Contains(LowerAll(f.words), "spring")
                    \/ Contains(LowerAll(f.words), Lower(name))
              THEN TRUE
              ELSE FALSE

\* if len(content) > 2000: content = content[:2000] + "... (truncated)"
\* (words stays the words of the file the text was cut from)
Truncate(c) ==
    IF c.len > MaxSnippetChars
    THEN [words |-> c.words, len |-> MaxSnippetChars + SuffixLen, truncated |-> TRUE]
    ELSE c

Snippet(path, content) == [file |-> path, content |-> content]

\* the call: the arguments, and the directory code_dir names
CallCheck ==
    /\ pc = "idle"
    /\ \E name \in LibraryNames : library_name' = name
    /\ \E p \in RootPoms \cup {NoFile} : root_pom' = p
    /\ tool' = "check_compatibility"
    /\ pc' = "c_walk"
    /\ UNCHANGED <<result, raised, new_version, pom, pom0, tree, old_version,
                   dirVars, visited, file, code_snippets, fallback,
                   snippets_text, log_file, posts, response>>

\* the file the loop comes to next: the root directory's files come first in
\* a top-down walk, and its pom.xml is taken as the first of them
NextFiles ==
    IF visited = 0 /\ root_pom # NoFile THEN {root_pom} ELSE SampleFiles

\* a file the extension test skips, or whose open() raises: the except clause
\* prints and the loop goes on
SkipFile ==
    /\ pc = "c_walk"
    /\ file = NoFile
    /\ visited < MaxFiles
    /\ \E f \in NextFiles : f.ext \notin ScannedExtensions \/ ~f.readable
    /\ visited' = visited + 1
    /\ UNCHANGED <<tool, pc, result, raised, updVars, dirVars, root_pom, file,
                   code_snippets, fallback, snippets_text, log_file, posts,
                   response>>

\* open(file_path, 'r', encoding='utf-8', errors='ignore') and f.read():
\* bytes that are not UTF-8 are dropped, not raised
ReadFile ==
    /\ pc = "c_walk"
    /\ file = NoFile
    /\ visited < MaxFiles
    /\ \E f \in NextFiles :
          /\ f.ext \in ScannedExtensions
          /\ f.readable
          /\ file' = f
    /\ UNCHANGED <<tool, pc, result, raised, updVars, dirVars, root_pom, visited,
                   code_snippets, fallback, snippets_text, log_file, posts,
                   response>>

\* the relevance test and if is_relevant: ... code_snippets.append(...)
Classify ==
    /\ pc = "c_walk"
    /\ file # NoFile
    /\ code_snippets' =
          IF IsRelevant(file, library_name)
          THEN Append(code_snippets, Snippet(file.path, Truncate(Content(file))))
          ELSE code_snippets
    /\ file' = NoFile
    /\ visited' = visited + 1
    /\ UNCHANGED <<tool, pc, result, raised, updVars, dirVars, root_pom,
                   fallback, snippets_text, log_file, posts, response>>

\* the walk is over (the root pom.xml, when there is one, was among its files)
EndWalk ==
    /\ pc = "c_walk"
    /\ file = NoFile
    /\ root_pom # NoFile => visited >= 1
    /\ pc' = IF code_snippets = <<>> THEN "c_fallback" ELSE "c_prompt"
    /\ UNCHANGED <<tool, result, raised, updVars, dirVars, chkVars>>

\* the fallback with its existence test inverted
FallbackSnippetsInverted(p) ==
    IF p = NoFile /\ p.readable /\ p.utf8
    THEN <<Snippet("pom.xml", Content(p))>>
    ELSE <<>>

\* if os.path.exists(pom_path): open(pom_path, 'r', encoding='utf-8'),
\* f.read(), code_snippets.append(("pom.xml", pom_content)); an open or a
\* decoding that raises is printed and nothing is appended
FallbackSnippets(p) ==
    IF p # NoFile /\ p.readable /\ p.utf8
    THEN <<Snippet("pom.xml", Content(p))>>
    ELSE <<>>

\* if not code_snippets: ...
Fallback ==
    /\ pc = "c_fallback"
    /\ code_snippets' = FallbackSnippets(root_pom)
    /\ fallback' = IF root_pom = NoFile THEN "no pom.xml"
                   ELSE IF FallbackSnippets(root_pom) = <<>> THEN "read failed"
                   ELSE "added"
    /\ pc' = "c_prompt"
    /\ UNCHANGED <<tool, result, raised, updVars, dirVars, root_pom, visited,
                   file, snippets_text, log_file, posts, response>>

\* the files whose words hold the library name itself
IsDirect(snippet, name) == Contains(snippet.content.words, name)

\* a slice that puts the direct references first
DirectFirst(snippets, name, n) ==
    LET direct == SelectSeq(snippets, LAMBDA x : IsDirect(x, name))
        others == SelectSeq(snippets, LAMBDA x : ~IsDirect(x, name))
        all == direct \o others
    IN  SubSeq(all, 1, Min(n, Len(all)))

\* code_snippets[:5]
FirstSnippets(snippets, name, n) == SubSeq(snippets, 1, Min(n, Len(snippets)))

\* for file, snippet in code_snippets[:5]: snippets_text += ...; prompt = ...
BuildPrompt ==
    /\ pc = "c_prompt"
    /\ snippets_text' = FirstSnippets(code_snippets, library_name, MaxSnippets)
    /\ pc' = "c_log"
    /\ UNCHANGED <<tool, result, raised, updVars, dirVars, root_pom, visited,
                   file, code_snippets, fallback, log_file, posts, response>>

\* with open("log.text", "a") as log_file: ... inside the try block: an open
\* or a write that raises ends the call in the except clause
WriteLog ==
    /\ pc = "c_log"
    /\ \/ /\ log_file' = "appended"
          /\ pc' = "c_post"
          /\ UNCHANGED result
       \/ /\ log_file' = "failed"
          /\ result' = ErrorResult("str(e)")
          /\ pc' = "done"
    /\ UNCHANGED <<tool, raised, updVars, dirVars, root_pom, visited, file,
                   code_snippets, fallback, snippets_text, posts, response>>

StatusCodes == {200, 201, 500}

\* what requests.post does: it raises (connection error, timeout), or gives
\* a response with a status code and a body from which
\* response.json()["content"][0]["text"] can or cannot be read
Responses ==
    {[exception |-> TRUE, status_code |-> 0, block |-> FALSE]}
        \cup {[exception |-> FALSE, status_code |-> c, block |-> b] :
                 c \in StatusCodes, b \in BOOLEAN}

NoResponse == [exception |-> FALSE, status_code |-> 0, block |-> FALSE]

\* a status test that takes every 2xx code
ResultOfAny2xx(r) ==
    IF r.exception THEN ErrorResult("str(e)")
    ELSE IF r.status_code >= 200 /\ r.status_code < 300
         THEN IF r.block THEN SuccessResult("compatibility_analysis", None)
              ELSE ErrorResult("str(e)")
         ELSE ErrorResult("response.text")

\* if response.status_code == 200: ... else: ... except Exception as e: ...
ResultOf(r) ==
    IF r.exception THEN ErrorResult("str(e)")
    ELSE IF r.status_code = 200
         THEN IF r.block THEN SuccessResult("compatibility_analysis", None)
              ELSE ErrorResult("str(e)")
         ELSE ErrorResult("response.text")

\* response = requests.post(..., timeout=120) and the return statements
Post ==
    /\ pc = "c_post"
    /\ posts' = posts + 1
    /\ \E r \in Responses :
          /\ response' = r
          /\ result' = ResultOf(r)
    /\ pc' = "done"
    /\ UNCHANGED <<tool, raised, updVars, dirVars, root_pom, visited, file,
                   code_snippets, fallback, snippets_text, log_file>>

-----------------------------------------------------------------------------
(* The server                                                              *)

Init ==
    /\ tool = "none"
    /\ pc = "idle"
    /\ result = NoResult
    /\ raised = FALSE
    /\ library_name = None
    /\ new_version = None
    /\ pom = AbsentPom
    /\ pom0 = AbsentPom
    /\ tree = <<>>
    /\ old_version = None
    /\ dir = "not a directory"
    /\ root_pom = NoFile
    /\ visited = 0
    /\ file = NoFile
    /\ code_snippets = <<>>
    /\ fallback = "not taken"
    /\ snippets_text = <<>>
    /\ log_file = "untouched"
    /\ posts = 0
    /\ response = NoResponse

Next ==
    \/ CallCodeDirectory \/ IsDir \/ ListDir
    \/ CallUpdate \/ PomExists \/ ParsePom \/ FindAndSet \/ OpenForWrite
    \/ SerializeTree
    \/ CallCheck \/ SkipFile \/ ReadFile \/ Classify \/ EndWalk \/ Fallback
    \/ BuildPrompt \/ WriteLog \/ Post

Spec == Init /\ [][Next]_vars

-----------------------------------------------------------------------------
(* Properties                                                              *)

Returned(t) == tool = t /\ pc = "done"

UpdateSucceeded == Returned("update_library_version") /\ result.status = "success"

\* the dependency elements that differ between pom.xml now and at the call
ChangedDeps == {i \in 1..Len(pom0.deps) : pom.deps[i] # pom0.deps[i]}

HasId(d, name) == d.artifactId = name

HasIdAndVersion(d, name) == d.artifactId = name /\ d.version # None

C3_ErrorLeavesManifest ==
    (Returned("update_library_version") /\ result.status = "error") => pom = pom0

\* the characters of a snippet's content before the truncation suffix
CharsBeforeSuffix(c) == IF c.truncated THEN c.len - SuffixLen ELSE c.len

\* C4 as claimed: the snippet block holds at most 5 files and the content of
\* each is at most 2000 characters before the truncation suffix, on every
\* path that fills the candidate list.
C4_BlockBounded ==
    /\ Len(snippets_text) <= MaxSnippets
    /\ \A i \in 1..Len(snippets_text) :
          CharsBeforeSuffix(snippets_text[i].content) <= MaxSnippetChars

PromptBuilt == tool = "check_compatibility" /\ pc \in {"c_log", "c_post", "done"}

IsRootPomSnippet(s) == s.file = "pom.xml" /\ s.content.words = root_pom.words

IsDependencyDeclaration(f, name) ==
    /\ f.ext = "xml"
    /\ Contains(f.words, "dependency")
    /\ \/ Contains(LowerAll(f.words), "spring")
       \/ Contains(LowerAll(f.words), Lower(name))

\* C6 as claimed: for every library name, a readable scanned .xml file with
\* the dependency marker and the ecosystem marker or the library name
\* (case-insensitive) is selected as a candidate by the scan.
C6_DependencyDeclarationSelected ==
    [][(/\ pc = "c_walk"
        /\ file # NoFile
        /\ IsDependencyDeclaration(file, library_name))
          => /\ Len(code_snippets') = Len(code_snippets) + 1
             /\ code_snippets'[Len(code_snippets')].file = file.path]_vars

CountDirect(snippets) ==
    Len(SelectSeq(snippets, LAMBDA x : IsDirect(x, library_name)))

\* C7 as claimed: every file with the literal library name is in the snippet
\* block, ahead of every file matched only by markers, whatever the walk
\* order and however many files matched.
C7_DirectMatchesFirst ==
    PromptBuilt =>
        /\ CountDirect(snippets_text) = CountDirect(code_snippets)
        /\ \A i, j \in 1..Len(snippets_text) :
              (IsDirect(snippets_text[j], library_name)
                  /\ ~IsDirect(snippets_text[i], library_name)) => j < i

\* C7 amended: the candidates are kept in the order the walk selected them
\* and the snippet block is the first 5 of them: a file with the literal
\* library name is in the block only when fewer than 5 files were selected
\* before it, and it comes after the marker-only files selected before it.
C7_BlockIsWalkOrderPrefix ==
    [][/\ (pc = "c_walk" /\ code_snippets' # code_snippets) =>
              /\ file # NoFile
              /\ Len(code_snippets') = Len(code_snippets) + 1
              /\ SubSeq(code_snippets', 1, Len(code_snippets)) = code_snippets
              /\ code_snippets'[Len(code_snippets')].file = file.path
              /\ code_snippets'[Len(code_snippets')].content.words = file.words
       /\ PromptBuilt' =>
              /\ Len(snippets_text') = Min(MaxSnippets, Len(code_snippets'))
              /\ \A i \in 1..Len(snippets_text') :
                    snippets_text'[i] = code_snippets'[i]]_vars

\* C7 witness: a prompt whose block holds marker-only files while a file with
\* the literal library name, selected sixth, is left out.
C7_Witness ==
    /\ PromptBuilt
    /\ Len(code_snippets) > MaxSnippets
    /\ IsDirect(code_snippets[MaxSnippets + 1], library_name)
    /\ \E i \in 1..Len(snippets_text) : ~IsDirect(snippets_text[i], library_name)
    /\ CountDirect(snippets_text) < CountDirect(code_snippets)

\* C8: check_compatibility returns success, with the first content block's
\* text, exactly when the POST gave status 200 and a body that holds the
\* block; a response with another status gives an error with the raw body,
\* and an exception gives an error with the exception's message.
C8_SuccessOnlyOn200 ==
    Returned("check_compatibility") =>
        LET good == /\ posts = 1
                    /\ ~response.exception
                    /\ response.status_code = 200
                    /\ response.block
        IN  /\ result.status = "success" <=> good
            /\ good => result.kind = "compatibility_analysis"
            /\ (posts = 1 /\ ~response.exception /\ response.status_code # 200)
                  => result = ErrorResult("response.text")
            /\ (posts = 0 \/ response.exception
                    \/ (response.status_code = 200 /\ ~response.block))
                  => result = ErrorResult("str(e)")

\* C8 witness: a 201 response with a readable content block was returned as
\* an error carrying the raw body.
C8_Witness ==
    /\ Returned("check_compatibility")
    /\ posts = 1
    /\ response.status_code = 201
    /\ response.block
    /\ result = ErrorResult("response.text")

\* C9 as claimed: every call of check_compatibility issues exactly one POST,
\* after the append to the log file, whether or not that append succeeds.
C9_OnePostWhateverTheLog ==
    /\ Returned("check_compatibility") => posts = 1
    /\ posts > 0 => log_file # "untouched"

\* C10 as claimed: no tool lets an exception reach its caller; every call
\* ends with a result whose status is success or error.
C10_NothingPropagates ==
    /\ ~raised
    /\ pc = "done" => result.status \in {"success", "error"}

====
